---------------------------- MODULE Spec2Model ----------------------------
(* Cursor motions of src/motion/position.ts (class Position) over a        *)
(* line-oriented text buffer read through TextEditor.                      *)
EXTENDS Integers, Sequences, FiniteSets, TLC

(***************************************************************************)
(* Bounds                                                                  *)
(***************************************************************************)
\* Longest generated document, counted in characters including newlines.
MaxDocLen == 4
\* How many iterations of a loop that no longer advances the model follows.
MaxSpin == 2
\* Rightmost column the model follows the cursor to.
MaxColumn == 8

(***************************************************************************)
(* Characters and buffers                                                  *)
(***************************************************************************)
NL == "nl"
TextChars == {"a", " ", "."}

\* the backslash, the double quote and the backtick are written by name
NonWordCharacters ==
    {"/", "backslash", "(", ")", "dquote", "'", ":", ",", ".", ";", "<", ">",
     "~", "!", "@", "#", "$", "%", "^", "&", "*", "|", "+", "=", "[", "]",
     "{", "}", "backtick", "?", "-"}
NonBigWordCharacters == {}

\* \s of the regular expressions, and the [\t ] of their first alternative
Whitespace == {" ", "tab", NL, "cr", "ff", "vt"}
TabOrSpace == {" ", "tab"}

RECURSIVE SplitLines(_)
SplitLines(t) ==
    IF t = << >> THEN << << >> >>
    ELSE LET rest == SplitLines(Tail(t))
         IN  IF Head(t) = NL THEN << << >> >> \o rest
             ELSE << <<Head(t)>> \o Head(rest) >> \o Tail(rest)

Documents == UNION {[1..n -> TextChars \cup {NL}] : n \in 0..MaxDocLen}

ScenarioA == << <<"f", "o", "o", " ", "b", "a", "r">> >>
ScenarioB == << <<"f", "o", "o">>, << >>, <<"b", "a", "r">> >>

Buffers == {SplitLines(t) : t \in Documents} \cup {ScenarioA, ScenarioB}

Inclusive == "CharacterWiseInclusive"
Exclusive == "CharacterWiseExclusive"
Unset == "null"
PositionOptions == {Inclusive, Exclusive}

Position(l, c, o) == [line |-> l, character |-> c, positionOptions |-> o]

VARIABLES
    lines,             \* the buffer behind TextEditor: a sequence of lines
    pos,               \* the cursor: the Position the next motion is called on
    pc,                \* "idle", or the loop a motion is in
    op,                \* the motion running, or the one that returned last
    this,              \* the receiver of that motion
    twice,             \* that motion was called on its own previous result
    workingPosition,   \* local: workingPosition (word motions), pos (paragraph)
    currentCharacter,  \* local of the word motions
    lastIndex,         \* regex.lastIndex
    positions,         \* local: the offsets collected by the scan loop
    iter,              \* loop iterations of the running paragraph motion
    valid              \* outcome of the last isValid() call, or "none"

vars == <<lines, pos, pc, op, this, twice, workingPosition, currentCharacter,
          lastIndex, positions, iter, valid>>

(***************************************************************************)
(* TextEditor, the read-only buffer adapter                                *)
(***************************************************************************)
getLineCount == Len(lines)
LineInRange(l) == l >= 0 /\ l < getLineCount
readLineAt(l) == lines[l + 1]
isFirstLine(p) == p.line = 0
isLastLine(p) == p.line = getLineCount - 1

(***************************************************************************)
(* Position: caret-mode arithmetic                                         *)
(***************************************************************************)
\* getLineLength raises for an option that is none of the enum's, and
\* readLineAt fails for a line outside the buffer
getLineLengthThrows(l, o) == o \notin PositionOptions \/ ~LineInRange(l)

getLineLength(l, o) ==
    IF o = Exclusive
    THEN LET len == Len(readLineAt(l)) IN IF len > 0 THEN len - 1 ELSE len
    ELSE Len(readLineAt(l))

RECURSIVE LeadingWhitespace(_)
LeadingWhitespace(text) ==
    IF text = << >> \/ Head(text) \notin Whitespace THEN 0
    ELSE 1 + LeadingWhitespace(Tail(text))

getFirstNonBlankCharAtLine(l) == LeadingWhitespace(readLineAt(l))

isLineBeginning(p) == p.character = 0
isLineEnd(p) == p.character = getLineLength(p.line, p.positionOptions)

getLineBegin(p) == Position(p.line, 0, p.positionOptions)
getLineEnd(p) ==
    Position(p.line, getLineLength(p.line, p.positionOptions), p.positionOptions)
getDocumentBegin(p) == Position(0, 0, p.positionOptions)
getDocumentEnd(p) ==
    LET lineCount == getLineCount
        l == IF lineCount > 0 THEN lineCount - 1 ELSE 0
    IN  Position(l, getLineLength(l, p.positionOptions), p.positionOptions)

Min(a, b) == IF a < b THEN a ELSE b

getLeft(p) ==
    IF ~isLineBeginning(p)
    THEN Position(p.line, p.character - 1, p.positionOptions)
    ELSE p

\* getRight testing the wrong end of the line
getRight_AtBeginning(p) ==
    IF ~isLineBeginning(p)
    THEN Position(p.line, p.character + 1, p.positionOptions)
    ELSE p

getRight(p) ==
    IF ~isLineEnd(p)
    THEN Position(p.line, p.character + 1, p.positionOptions)
    ELSE p

\* getDown answering the document end instead of this on the last line
getDown_ToDocumentEnd(p, desiredColumn) ==
    IF getDocumentEnd(p).line # p.line
    THEN LET nextLine == p.line + 1
             nextLineLength == getLineLength(nextLine, p.positionOptions)
         IN  Position(nextLine, Min(nextLineLength, desiredColumn), p.positionOptions)
    ELSE getDocumentEnd(p)

getDown(p, desiredColumn) ==
    IF getDocumentEnd(p).line # p.line
    THEN LET nextLine == p.line + 1
             nextLineLength == getLineLength(nextLine, p.positionOptions)
         IN  Position(nextLine, Min(nextLineLength, desiredColumn), p.positionOptions)
    ELSE p

getUp(p, desiredColumn) ==
    IF getDocumentBegin(p).line # p.line
    THEN LET prevLine == p.line - 1
             prevLineLength == getLineLength(prevLine, p.positionOptions)
         IN  Position(prevLine, Min(prevLineLength, desiredColumn), p.positionOptions)
    ELSE p

\* "true", "false", or "throws" when the call raises instead of returning
isValid(p) ==
    IF p.line > getLineCount THEN "false"
    ELSE IF getLineLengthThrows(p.line, p.positionOptions) THEN "throws"
    ELSE IF p.character > getLineLength(p.line, p.positionOptions) THEN "false"
    ELSE IF p.positionOptions = Unset THEN "false"
    ELSE "true"

firstNonWhitespaceCharacterIndex(l) == LeadingWhitespace(readLineAt(l))

(***************************************************************************)
(* makeWordRegex: (^[\t ]*$)|([^\s<set>]+)|[<set>]+ with the g flag, and   *)
(* RegExp.prototype.exec on it                                             *)
(***************************************************************************)
Regexes == [word |-> NonWordCharacters, bigWord |-> NonBigWordCharacters]

IsBlankLine(text) == \A k \in 1..Len(text) : text[k] \in TabOrSpace
IsWordChar(c, set) == c \notin Whitespace /\ c \notin set

\* length of the longest run starting at 0-based offset i whose characters
\* all are (wordRun) word characters, or (~wordRun) characters of the set
RECURSIVE RunLength(_, _, _, _)
RunLength(text, i, set, wordRun) ==
    IF i >= Len(text) THEN 0
    ELSE IF (wordRun /\ IsWordChar(text[i + 1], set)) \/ (~wordRun /\ text[i + 1] \in set)
         THEN 1 + RunLength(text, i + 1, set, wordRun)
         ELSE 0

\* length of the match of the alternation anchored at offset i, -1 if none;
\* the alternatives are tried in the order they are written
MatchLengthAt(text, i, set) ==
    IF i = 0 /\ IsBlankLine(text) THEN Len(text)
    ELSE IF RunLength(text, i, set, TRUE) > 0 THEN RunLength(text, i, set, TRUE)
    ELSE IF RunLength(text, i, set, FALSE) > 0 THEN RunLength(text, i, set, FALSE)
    ELSE -1

NoMatch == [index |-> -1, length |-> 0]

\* exec searches from lastIndex on; a match of length 0 is a match
exec(text, from, set) ==
    LET starts == {i \in from..Len(text) : MatchLengthAt(text, i, set) >= 0}
    IN  IF starts = {} THEN NoMatch
        ELSE LET i == CHOOSE j \in starts : \A k \in starts : j <= k
             IN  [index |-> i, length |-> MatchLengthAt(text, i, set)]

\* exec leaves lastIndex at the end of the match
lastIndexAfter(result) == result.index + result.length

(***************************************************************************)
(* Motions                                                                 *)
(***************************************************************************)
WordLeftOps == [getWordLeft |-> "word", getBigWordLeft |-> "bigWord"]
WordRightOps == [getWordRight |-> "word", getBigWordRight |-> "bigWord"]
WordEndOps == [getCurrentWordEnd |-> "word", getCurrentBigWordEnd |-> "bigWord"]
WordOps == WordLeftOps @@ WordRightOps @@ WordEndOps

NoPosition == Position(0, 0, Unset)
currentLine == readLineAt(workingPosition.line)
regex == Regexes[WordOps[op]]

Locals == <<workingPosition, currentCharacter, lastIndex, positions, iter>>

\* a motion without a loop: called on the cursor, its result is the new cursor
Call(name, result) ==
    /\ pc = "idle"
    /\ pos' = result
    /\ op' = name
    /\ this' = pos
    /\ twice' = (op = name)
    /\ UNCHANGED <<lines, pc, Locals, valid>>

\* entering the loop of a motion called on the cursor
Enter(name, label) ==
    /\ pc = "idle"
    /\ pc' = label
    /\ op' = name
    /\ this' = pos
    /\ twice' = (op = name)
    /\ UNCHANGED <<lines, pos, valid>>

\* a motion with a loop returns
Return(result) ==
    /\ pos' = result
    /\ pc' = "idle"
    /\ workingPosition' = NoPosition
    /\ currentCharacter' = 0
    /\ lastIndex' = 0
    /\ positions' = << >>
    /\ iter' = 0
    /\ UNCHANGED <<lines, op, this, twice, valid>>

GetLeft == Call("getLeft", getLeft(pos))
GetRight == getRight(pos).character <= MaxColumn /\ Call("getRight", getRight(pos))
GetDown == \E desiredColumn \in 0..MaxDocLen : Call("getDown", getDown(pos, desiredColumn))
GetUp == \E desiredColumn \in 0..MaxDocLen : Call("getUp", getUp(pos, desiredColumn))
GetLineBegin == Call("getLineBegin", getLineBegin(pos))
GetLineEnd == Call("getLineEnd", getLineEnd(pos))
GetDocumentBegin == Call("getDocumentBegin", getDocumentBegin(pos))
GetDocumentEnd == Call("getDocumentEnd", getDocumentEnd(pos))

(***************************************************************************)
(* Word motions: set-up, the exec loop, and the search that follows it     *)
(***************************************************************************)
\* getWordLeftWithRegex up to the loop
BeginWordLeft ==
    \E name \in DOMAIN WordLeftOps :
        LET moved == ~isFirstLine(pos)
                     /\ pos.character <= firstNonWhitespaceCharacterIndex(pos.line)
            wp == IF moved
                  THEN Position(pos.line - 1, pos.character, pos.positionOptions)
                  ELSE Position(pos.line, pos.character, pos.positionOptions)
        IN  /\ Enter(name, "scan")
            /\ workingPosition' = wp
            /\ currentCharacter' = IF moved THEN getLineEnd(wp).character + 1
                                   ELSE pos.character
            /\ lastIndex' = 0
            /\ positions' = << >>
            /\ UNCHANGED iter

\* the line after this one, as TextEditor.getLineAt(this.translate(1)) gives it
nextLineFirstNonBlank(p) ==
    Position(p.line + 1, firstNonWhitespaceCharacterIndex(p.line + 1), p.positionOptions)

\* getWordRightWithRegex up to the loop, or its early return
BeginWordRight ==
    \E name \in DOMAIN WordRightOps :
        \/ /\ ~isLastLine(pos) /\ pos.character >= getLineEnd(pos).character
           /\ Call(name, nextLineFirstNonBlank(pos))
        \/ /\ ~(~isLastLine(pos) /\ pos.character >= getLineEnd(pos).character)
           /\ Enter(name, "scan")
           /\ workingPosition' = pos
           /\ currentCharacter' = pos.character
           /\ lastIndex' = 0
           /\ positions' = << >>
           /\ UNCHANGED iter

\* getCurrentWordEndWithRegex up to the loop
BeginWordEnd ==
    \E name \in DOMAIN WordEndOps :
        LET moved == ~isLastLine(pos) /\ pos.character >= getLineEnd(pos).character
        IN  /\ Enter(name, "scan")
            /\ workingPosition' =
                  IF moved
                  THEN Position(pos.line + 1, pos.character, pos.positionOptions)
                  ELSE Position(pos.line, pos.character, pos.positionOptions)
            /\ currentCharacter' = IF moved THEN 0 ELSE pos.character
            /\ lastIndex' = 0
            /\ positions' = << >>
            /\ UNCHANGED iter

\* what one match adds to positions
pushed(result) ==
    IF op \in DOMAIN WordEndOps THEN result.index + result.length - 1
    ELSE result.index

\* one iteration of while (true): exec found a match
ScanMatch ==
    LET result == exec(currentLine, lastIndex, regex)
    IN  /\ pc = "scan"
        /\ result # NoMatch
        /\ Len(positions) < Len(currentLine) + 1 + MaxSpin
        /\ positions' = Append(positions, pushed(result))
        /\ lastIndex' = lastIndexAfter(result)
        /\ UNCHANGED <<lines, pos, pc, op, this, twice, workingPosition,
                       currentCharacter, iter, valid>>

Max(S) == CHOOSE x \in S : \A y \in S : y <= x
Least(S) == CHOOSE x \in S : \A y \in S : x <= y

\* getWordLeftWithRegex comparing with >= instead of >
wordLeftResult_NotStrict ==
    LET hits == {k \in 1..Len(positions) : currentCharacter >= positions[k]} IN
    IF hits # {}
    THEN Position(workingPosition.line, positions[Max(hits)],
                  workingPosition.positionOptions)
    ELSE IF this.line = 0 THEN getLineBegin(this)
    ELSE getLineEnd(Position(this.line - 1, 0, this.positionOptions))

\* the for loop and the fall-back of getWordLeftWithRegex
wordLeftResult ==
    LET hits == {k \in 1..Len(positions) : currentCharacter > positions[k]} IN
    IF hits # {}
    THEN Position(workingPosition.line, positions[Max(hits)],
                  workingPosition.positionOptions)
    ELSE IF this.line = 0 THEN getLineBegin(this)
    ELSE getLineEnd(Position(this.line - 1, 0, this.positionOptions))

\* the for loop and the fall-back of getWordRightWithRegex
wordRightResult ==
    LET hits == {k \in 1..Len(positions) : this.character < positions[k]} IN
    IF hits # {}
    THEN Position(this.line, positions[Least(hits)], this.positionOptions)
    ELSE IF this.line = getDocumentEnd(this).line THEN getLineEnd(this)
    ELSE nextLineFirstNonBlank(this)

\* the for loop and the fall-back of getCurrentWordEndWithRegex
wordEndResult ==
    LET hits == {k \in 1..Len(positions) : currentCharacter < positions[k]} IN
    IF hits # {}
    THEN Position(workingPosition.line, positions[Least(hits)],
                  workingPosition.positionOptions)
    ELSE getLineEnd(this)

\* exec returned null: the loop breaks and the motion returns
ScanDone == pc = "scan" /\ exec(currentLine, lastIndex, regex) = NoMatch

WordLeftReturn ==
    ScanDone /\ op \in DOMAIN WordLeftOps /\ Return(wordLeftResult)
WordRightReturn ==
    ScanDone /\ op \in DOMAIN WordRightOps /\ Return(wordRightResult)
WordEndReturn ==
    ScanDone /\ op \in DOMAIN WordEndOps /\ Return(wordEndResult)

(***************************************************************************)
(* Paragraph motions: two loops each                                       *)
(***************************************************************************)
getLineAtText(p) == readLineAt(p.line)

EnterParagraph(name) ==
    /\ Enter(name, "phase1")
    /\ workingPosition' = pos
    /\ iter' = 0
    /\ UNCHANGED <<currentCharacter, lastIndex, positions>>

\* pos = pos.getDown(0) or pos = pos.getUp(0) in a loop body
Iterate(next) ==
    /\ iter < getLineCount + MaxSpin
    /\ workingPosition' = next
    /\ iter' = iter + 1
    /\ UNCHANGED <<lines, pos, pc, op, this, twice, currentCharacter, lastIndex,
                   positions, valid>>

\* the first loop ends, the second begins
NextPhase ==
    /\ pc' = "phase2"
    /\ UNCHANGED <<lines, pos, op, this, twice, Locals, valid>>

BeginParagraphEnd == EnterParagraph("getCurrentParagraphEnd")

\* the first loop of getCurrentParagraphEnd testing for a non-empty line
endPhase1Cond_NonBlank(p) == getLineAtText(p) # << >> /\ ~isLastLine(p)
\* the second loop of getCurrentParagraphEnd not testing the text
endPhase2Cond_IgnoresBlank(p) == p.line < getLineCount - 1
\* the second loop of getCurrentParagraphEnd going one line too far
endPhase2Cond_OffByOne(p) == getLineAtText(p) # << >> /\ p.line < getLineCount

endPhase1Cond(p) == getLineAtText(p) = << >> /\ ~isLastLine(p)
endPhase2Cond(p) == getLineAtText(p) # << >> /\ p.line < getLineCount - 1

ParagraphEndPhase1 ==
    /\ pc = "phase1" /\ op = "getCurrentParagraphEnd"
    /\ \/ endPhase1Cond(workingPosition) /\ Iterate(getDown(workingPosition, 0))
       \/ ~endPhase1Cond(workingPosition) /\ NextPhase

ParagraphEndPhase2 ==
    /\ pc = "phase2" /\ op = "getCurrentParagraphEnd"
    /\ \/ endPhase2Cond(workingPosition) /\ Iterate(getDown(workingPosition, 0))
       \/ ~endPhase2Cond(workingPosition) /\ Return(getLineEnd(workingPosition))

BeginParagraphBeginning == EnterParagraph("getCurrentParagraphBeginning")

beginPhase1Cond(p) == getLineAtText(p) = << >> /\ ~isFirstLine(p)
beginPhase2Cond(p) == p.line > 0 /\ getLineAtText(p) # << >>

ParagraphBeginningPhase1 ==
    /\ pc = "phase1" /\ op = "getCurrentParagraphBeginning"
    /\ \/ beginPhase1Cond(workingPosition) /\ Iterate(getUp(workingPosition, 0))
       \/ ~beginPhase1Cond(workingPosition) /\ NextPhase

ParagraphBeginningPhase2 ==
    /\ pc = "phase2" /\ op = "getCurrentParagraphBeginning"
    /\ \/ beginPhase2Cond(workingPosition) /\ Iterate(getUp(workingPosition, 0))
       \/ ~beginPhase2Cond(workingPosition) /\ Return(getLineBegin(workingPosition))

(***************************************************************************)
(* Specification of the motions                                            *)
(***************************************************************************)
InitLocals ==
    /\ pc = "idle"
    /\ op = "none"
    /\ this = NoPosition
    /\ twice = FALSE
    /\ workingPosition = NoPosition
    /\ currentCharacter = 0
    /\ lastIndex = 0
    /\ positions = << >>
    /\ iter = 0
    /\ valid = "none"

\* positions as the constructor takes them: any line, character and options
AnyPositions(buf) ==
    {Position(l, c, o) : l \in 0..(Len(buf) + 1), c \in 0..MaxColumn,
                         o \in PositionOptions \cup {Unset}}

\* any buffer, the cursor at any position of it that isValid() accepts
Init ==
    /\ lines \in Buffers
    /\ pos \in {p \in AnyPositions(lines) : isValid(p) = "true"}
    /\ InitLocals

Next ==
    \/ GetLeft \/ GetRight \/ GetDown \/ GetUp
    \/ GetLineBegin \/ GetLineEnd \/ GetDocumentBegin \/ GetDocumentEnd
    \/ BeginWordLeft \/ BeginWordRight \/ BeginWordEnd
    \/ ScanMatch \/ WordLeftReturn \/ WordRightReturn \/ WordEndReturn
    \/ BeginParagraphEnd \/ ParagraphEndPhase1 \/ ParagraphEndPhase2
    \/ BeginParagraphBeginning \/ ParagraphBeginningPhase1
    \/ ParagraphBeginningPhase2

Spec == Init /\ [][Next]_vars

(***************************************************************************)
(* Specification of isValid() on arbitrary positions                       *)
(***************************************************************************)
InitValid ==
    /\ lines \in Buffers
    /\ pos \in AnyPositions(lines)
    /\ InitLocals

IsValid ==
    /\ valid = "none"
    /\ valid' = isValid(pos)
    /\ UNCHANGED <<lines, pos, pc, op, this, twice, Locals>>

NextValid == IsValid

SpecValid == InitValid /\ [][NextValid]_vars

(***************************************************************************)
(* The runs of a line, as sections 4.2 of the specification defines them:  *)
(* a blank line is one run at offset 0; otherwise the maximal runs of word *)
(* characters and the maximal runs of characters of the set                *)
(***************************************************************************)
CharClass(c, set) ==
    IF c \in set THEN "punctuation"
    ELSE IF c \in Whitespace THEN "space" ELSE "word"

RunStarts(text, set) ==
    IF IsBlankLine(text) THEN {0}
    ELSE {i \in 0..(Len(text) - 1) :
            /\ CharClass(text[i + 1], set) # "space"
            /\ i = 0 \/ CharClass(text[i], set) # CharClass(text[i + 1], set)}

RunEnds(text, set) ==
    IF IsBlankLine(text) THEN {Len(text) - 1}
    ELSE {i \in 0..(Len(text) - 1) :
            /\ CharClass(text[i + 1], set) # "space"
            /\ i = Len(text) - 1
               \/ CharClass(text[i + 2], set) # CharClass(text[i + 1], set)}

Returned(names) == pc = "idle" /\ op \in names
ParagraphEnd == "getCurrentParagraphEnd"
ParagraphBeginning == "getCurrentParagraphBeginning"

(***************************************************************************)
(* Claims                                                                  *)
(***************************************************************************)

\* C1, as stated: getCurrentParagraphEnd and getCurrentParagraphBeginning are
\* idempotent: called on its own result, each returns that same position.
C1_ParagraphIdempotent ==
    Returned({ParagraphEnd, ParagraphBeginning}) /\ twice => pos = this

\* C1, amended: getCurrentParagraphEnd called on its own result returns that
\* position when the result is on the last line, and otherwise a position on
\* a later line; getCurrentParagraphBeginning called on its own result
\* returns that position when the result is on line 0, and otherwise a
\* position on an earlier line.
C1_ParagraphRepeated ==
    /\ Returned({ParagraphEnd}) /\ twice =>
          IF isLastLine(this) THEN pos = this ELSE pos.line > this.line
    /\ Returned({ParagraphBeginning}) /\ twice =>
          IF isFirstLine(this) THEN pos = this ELSE pos.line < this.line

C1_Witness ==
    /\ Returned({ParagraphEnd}) /\ twice
    /\ ~isLastLine(this)
    /\ pos.line > this.line

\* C2, as stated: Exclusive, ["foo", "", "bar"], cursor (0,0):
\* getCurrentParagraphEnd returns (0, 3).
C2_ScenarioB ==
    /\ lines = ScenarioB
    /\ Returned({ParagraphEnd})
    /\ this = Position(0, 0, Exclusive)
    => pos = Position(0, 3, Exclusive)

\* C2, amended: Exclusive, ["foo", "", "bar"], cursor (0,0):
\* getCurrentParagraphEnd returns (1, 0), the line-end of the empty line 1
\* on which the scan stops.
C2_ScenarioBStopsOnBlank ==
    /\ lines = ScenarioB
    /\ Returned({ParagraphEnd})
    /\ this = Position(0, 0, Exclusive)
    => pos = Position(1, 0, Exclusive)

C2_Witness ==
    /\ lines = ScenarioB
    /\ Returned({ParagraphEnd})
    /\ this = Position(0, 0, Exclusive)
    /\ pos.line = 1

\* C3, as stated: for a valid p not at line-beginning p.getRight().getLeft()
\* is p, and for a valid p not at line-end p.getLeft().getRight() is p.
C3_LeftRightInverse ==
    pc = "idle" /\ isValid(pos) = "true" =>
        /\ ~isLineBeginning(pos) => getLeft(getRight(pos)) = pos
        /\ ~isLineEnd(pos) => getRight(getLeft(pos)) = pos

\* C3, amended: for a valid p not at line-end p.getRight().getLeft() is p,
\* and for a valid p not at line-beginning p.getLeft().getRight() is p.
C3_LeftRightInverseSwapped ==
    pc = "idle" /\ isValid(pos) = "true" =>
        /\ ~isLineEnd(pos) => getLeft(getRight(pos)) = pos
        /\ ~isLineBeginning(pos) => getRight(getLeft(pos)) = pos

\* getRight then getLeft have been called, and the cursor is back
C3_Witness ==
    /\ Returned({"getLeft"})
    /\ isValid(pos) = "true" /\ ~isLineEnd(pos)
    /\ this = getRight(pos) /\ this # pos

\* C4: the position a motion returns for a valid receiver has
\* 0 <= character <= lineLength(line, mode).
C4_ResultCharacterValid ==
    pc = "idle" /\ op # "none" /\ isValid(this) = "true" =>
        /\ pos.character >= 0
        /\ pos.character <= getLineLength(pos.line, pos.positionOptions)

\* C5: the line of every position a motion computes is in [0, lineCount-1];
\* getDown on the last line and getUp on line 0 return the receiver.
C5_LineInDocument ==
    /\ LineInRange(pos.line)
    /\ pc # "idle" => LineInRange(workingPosition.line)
    /\ Returned({"getDown"}) /\ isLastLine(this) => pos = this
    /\ Returned({"getUp"}) /\ isFirstLine(this) => pos = this

\* getDown has been repeated on the last line
C5_Witness ==
    Returned({"getDown"}) /\ twice /\ isLastLine(this) /\ getLineCount > 1

\* C6: isValid returns false for an unset mode, whatever the line and
\* character; false for line > lineCount or character > lineLength; true
\* otherwise.
C6_IsValidResult ==
    valid # "none" =>
        /\ pos.positionOptions = Unset => valid = "false"
        /\ pos.line > getLineCount => valid = "false"
        /\ LineInRange(pos.line) /\ pos.positionOptions # Unset =>
             valid = IF pos.character > getLineLength(pos.line, pos.positionOptions)
                     THEN "false" ELSE "true"

\* C7: the scan loop of a word motion takes a number of steps bounded by
\* the length of the scanned line.
C7_ScanBounded ==
    pc = "scan" => Len(positions) <= Len(currentLine) + 1

\* C8: each iteration of the loops of getCurrentParagraphEnd moves one line
\* down, and of getCurrentParagraphBeginning one line up, inside the
\* document: there are at most as many iterations as lines remain.
C8_ParagraphLoopsAdvance ==
    pc \in {"phase1", "phase2"} =>
        /\ op = ParagraphEnd =>
             /\ workingPosition.line = this.line + iter
             /\ workingPosition.line <= getLineCount - 1
        /\ op = ParagraphBeginning =>
             /\ workingPosition.line = this.line - iter
             /\ workingPosition.line >= 0

C8_Witness ==
    pc = "phase2" /\ op = ParagraphEnd /\ iter >= 2 /\ ~isLastLine(workingPosition)

\* C9: at or past line-end of a line that is not the last, the word-end
\* motions return a position on the next line: its first run-end offset
\* greater than 0, or else its line-end.
C9_WordEndOnNextLine ==
    /\ Returned(DOMAIN WordEndOps)
    /\ ~isLastLine(this)
    /\ this.character >= getLineEnd(this).character
    => LET next == this.line + 1
           ends == {e \in RunEnds(readLineAt(next), Regexes[WordEndOps[op]]) : e > 0}
       IN  pos = Position(next,
                          IF ends # {} THEN Least(ends)
                          ELSE getLineLength(next, this.positionOptions),
                          this.positionOptions)

\* C10: getWordLeft and getBigWordLeft return the nearest run start before
\* the cursor: from at or before the first non-blank offset of a line that
\* is not the first, the greatest run start of the previous line; otherwise
\* the greatest run start of the line that is less than the character, and
\* (0, 0) when the first line has none. Exclusive, "foo bar", character 4
\* gives (0, 0).
C10_WordLeftNearestRunStart ==
    Returned(DOMAIN WordLeftOps) =>
        LET set == Regexes[WordLeftOps[op]]
            before == {b \in RunStarts(readLineAt(this.line), set) : b < this.character}
        IN  /\ IF this.line > 0 /\ this.character <= getFirstNonBlankCharAtLine(this.line)
               THEN pos = Position(this.line - 1,
                                   Max(RunStarts(readLineAt(this.line - 1), set)),
                                   this.positionOptions)
               ELSE IF before # {}
               THEN pos = Position(this.line, Max(before), this.positionOptions)
               ELSE this.line = 0 => pos = Position(0, 0, this.positionOptions)
            /\ lines = ScenarioA /\ this = Position(0, 4, Exclusive)
                  => pos = Position(0, 0, Exclusive)

C10_Witness ==
    /\ lines = ScenarioA
    /\ Returned({"getWordLeft"})
    /\ this = Position(0, 4, Exclusive)
    /\ pos = Position(0, 0, Exclusive)

=============================================================================
